---- MODULE Spec2Model ----
(***************************************************************************)
(* Model of manual.py: a linear script that builds, signs and writes the   *)
(* TUF metadata of a demo repository (1.root.json, the delegated targets   *)
(* role, targets.json, snapshot.json, timestamp.json) with the low-level   *)
(* Metadata API.  One execution of the script is a process walking through *)
(* the statements in order; the metadata directory is shared state that    *)
(* survives an execution.                                                  *)
(*                                                                         *)
(* Strings that the script takes apart are modelled by their parts: a path *)
(* is the sequence of its "/"-separated segments, a segment (and a file    *)
(* name) is a sequence of tokens, "*" being the glob wildcard.  A dict is  *)
(* a function, so key order (sort_nested_dict) is not part of the model.   *)
(***************************************************************************)
EXTENDS Integers, Sequences, FiniteSets, TLC

\* ------------------------------------------------------------ bounds
MaxRuns == 2        \* executions of the script against one directory
MaxLinks == 2       \* .link files the glob can find
MaxDepth == 2       \* delegation levels followed by the walk

Procs == {1, 2}     \* executions that may overlap
SeqProcs == {1}     \* executions run one after the other

VARIABLES
    pc,                     \* position of each execution in the script
    exec,                   \* number of the execution a process is running
    nexec,                  \* executions started so far
    online_key,             \* line 67
    offline_key,            \* line 68
    roles,                  \* line 57: role name -> Metadata
    targets,                \* line 106: target path -> TargetFile
    package_custom_in_toto, \* line 107
    disk_filename,          \* loop variable of line 110
    targets_dict,           \* line 170
    loaded,                 \* the object Metadata.from_file returned
    disk,                   \* TMP_DIR: file name -> file contents
    written                 \* file names each execution wrote, in order

vars == <<pc, exec, nexec, online_key, offline_key, roles, targets,
          package_custom_in_toto, disk_filename, targets_dict, loaded,
          disk, written>>

\* ------------------------------------------------------------ names
delegatee_name == "packages-and-in-toto-metadata-signer"

TopLevelRoles == {"root", "targets", "snapshot", "timestamp"}
RoleNames == TopLevelRoles \cup {delegatee_name}

\* A file name is the sequence of its "."-separated parts.
Unversioned(rolename) == <<rolename, "json">>

unversioned_root_filename == <<"1", "root", "json">>
unversioned_delegatee_filename == Unversioned(delegatee_name)
unversioned_target_filename == Unversioned("targets")
unversioned_snapshot_filename == Unversioned("snapshot")
unversioned_timestamp_filename == Unversioned("timestamp")

\* The file the script writes for a role.
RoleFile(r) ==
    CASE r = "root" -> unversioned_root_filename
      [] r = delegatee_name -> unversioned_delegatee_filename
      [] r = "targets" -> unversioned_target_filename
      [] r = "snapshot" -> unversioned_snapshot_filename
      [] r = "timestamp" -> unversioned_timestamp_filename

\* ------------------------------------------------------------ paths
TARGETS_DIR == <<"targets-ite2">>
LayoutHash == <<"b4df3c864becf593">>
LinkStems == <<"clone", "update-version", "package", "test", "build">>

\* The files the glob of line 110 can return.  TARGETS_DIR ends in "/" and
\* the pattern adds another, so the returned paths hold an empty segment.
LinkDiskFile(i) ==
    <<TARGETS_DIR, <<>>, <<"in-toto-metadata">>, LayoutHash, <<LinkStems[i], ".link">>>>

LinkDiskFiles == {LinkDiskFile(i) : i \in 1..MaxLinks}

IsInjective(s) == \A i, j \in DOMAIN s : s[i] = s[j] => i = j

\* glob.glob returns the matching files in arbitrary order.
GlobResults ==
    {s \in UNION {[1..n -> LinkDiskFiles] : n \in 0..MaxLinks} : IsInjective(s)}

RootLayoutPath == <<<<"in-toto-metadata">>, <<"root", ".layout">>>>
AlicePubPath == <<<<"in-toto-pubkeys">>, <<"alice", ".pub">>>>
PackagePath == <<<<"packages">>, <<"demo-project", ".tar", ".gz">>>>

\* os.path.join(TARGETS_DIR, metadata_filename), line 121
package_filename == <<TARGETS_DIR>> \o PackagePath

Unbound == <<>>

\* str.lstrip('/') of the joined path: leading empty segments go.
RECURSIVE LStripSlash(_)
LStripSlash(segs) ==
    IF segs = <<>> THEN <<>>
    ELSE IF Head(segs) = <<>> THEN LStripSlash(Tail(segs))
    ELSE segs

\* Mutation of MetadataFilename: the leading "/" is left in place.
MetadataFilenameUnstripped(disk_file) == Tail(disk_file)

\* line 112: '/'.join(disk_filename.split('/')[1:]).lstrip('/')
MetadataFilename(disk_file) == LStripSlash(Tail(disk_file))

\* ------------------------------------------------------------ files
\* Contents of the files under TARGETS_DIR: the bytes are abstract, one
\* distinct content per file.
FileBytes(disk_file) == <<"bytes-of">> \o disk_file
Sha256(bytes) == <<"sha256", bytes>>

\* TargetFile.from_file(target_file_path, local_path)
TargetFileFromFile(target_file_path, local_path) ==
    [path |-> target_file_path,
     length |-> Len(FileBytes(local_path)),
     hashes |-> Sha256(FileBytes(local_path)),
     custom |-> {}]

\* ------------------------------------------------------------ metadata
Range(s) == {s[i] : i \in DOMAIN s}

\* A Metadata object / a metadata file: the signed payload and the
\* signatures by key id.  origin records the execution that built the
\* payload (history only).
Metadata(signed, e) == [signed |-> signed, signatures |-> <<>>, origin |-> e]

NoMetadata == Metadata([type |-> "none"], 0)

\* Key ids of the keys an execution generates (lines 67-68): fresh ones.
GenerateKey(e, i) == 2 * (e - 1) + i
KeyOwner(keyid) == (keyid + 1) \div 2

\* expires is kept as the number of days given to _in; the clock is not
\* modelled.
\* Root(expires=_in(365)): version 1, no keys, threshold 1 for each
\* top-level role, consistent_snapshot on.
Root(expires) ==
    [type |-> "root", version |-> 1, expires |-> expires, keys |-> {},
     roles |-> [r \in TopLevelRoles |-> [keyids |-> <<>>, threshold |-> 1]],
     consistent_snapshot |-> TRUE]

\* Root.add_key(key, role)
add_key(root, key, role) ==
    [root EXCEPT !.keys = @ \cup {key},
                 !.roles[role].keyids =
                     IF key \in Range(@) THEN @ ELSE Append(@, key)]

\* Targets(version, expires, targets): no delegations unless given.
Targets(version, expires, tgts) ==
    [type |-> "targets", version |-> version, expires |-> expires,
     targets |-> tgts]

\* Mutation of Snapshot: the new snapshot takes the next version while the
\* timestamp still names version 1.
SnapshotNextVersion(expires) ==
    [type |-> "snapshot", version |-> 2, expires |-> expires,
     meta |-> (unversioned_target_filename :> [version |-> 1])]

\* Snapshot(expires): version 1, meta lists targets.json at version 1.
Snapshot(expires) ==
    [type |-> "snapshot", version |-> 1, expires |-> expires,
     meta |-> (unversioned_target_filename :> [version |-> 1])]

\* Timestamp(expires): version 1, meta lists snapshot.json at version 1.
Timestamp(expires) ==
    [type |-> "timestamp", version |-> 1, expires |-> expires,
     meta |-> (unversioned_snapshot_filename :> [version |-> 1])]

\* A signature is determined by the key and the bytes signed.
Signature(key, signed) == [keyid |-> key, over |-> signed]

\* Metadata.sign(signer): append=False, so earlier signatures are dropped.
Sign(md, key) == [md EXCEPT !.signatures = (key :> Signature(key, md.signed))]

\* Metadata.to_file / json.dump to a file of TMP_DIR
ToFile(d, filename, md) ==
    [f \in DOMAIN d \cup {filename} |-> IF f = filename THEN md ELSE d[f]]

\* Metadata.from_file
FromFile(d, filename) == d[filename]

\* ------------------------------------------------------------ the script
Init ==
    /\ pc = [p \in Procs |-> "start"]
    /\ exec = [p \in Procs |-> 0]
    /\ nexec = 0
    /\ online_key = [p \in Procs |-> 0]
    /\ offline_key = [p \in Procs |-> 0]
    /\ roles = [p \in Procs |-> <<>>]
    /\ targets = [p \in Procs |-> <<>>]
    /\ package_custom_in_toto = [p \in Procs |-> <<>>]
    /\ disk_filename = [p \in Procs |-> Unbound]
    /\ targets_dict = [p \in Procs |-> NoMetadata]
    /\ loaded = [p \in Procs |-> NoMetadata]
    /\ disk = <<>>
    /\ written = [p \in Procs |-> <<>>]

Goto(p, label) == pc' = [pc EXCEPT ![p] = label]

\* to_file / json.dump: the file is replaced and the write is logged.
Write(p, filename, md) ==
    /\ disk' = ToFile(disk, filename, md)
    /\ written' = [written EXCEPT ![p] = Append(@, filename)]

\* lines 65-84: the root object, the two keys, the keys of the four roles.
CreateRoot(p) ==
    /\ pc[p] = "start"
    /\ nexec < MaxRuns
    /\ LET e == nexec + 1
           online == GenerateKey(e, 1)
           offline == GenerateKey(e, 2)
           r0 == Root(365)
           r1 == add_key(r0, online, "timestamp")
           r2 == add_key(r1, online, "snapshot")
           r3 == add_key(r2, offline, "root")
           r4 == add_key(r3, offline, "targets")
           r5 == [r4 EXCEPT !.consistent_snapshot = FALSE]
       IN /\ nexec' = e
          /\ exec' = [exec EXCEPT ![p] = e]
          /\ online_key' = [online_key EXCEPT ![p] = online]
          /\ offline_key' = [offline_key EXCEPT ![p] = offline]
          /\ roles' = [roles EXCEPT ![p] = ("root" :> Metadata(r5, e))]
    /\ Goto(p, "write_root")
    /\ UNCHANGED <<targets, package_custom_in_toto, disk_filename,
                   targets_dict, loaded, disk, written>>

\* lines 88-90
WriteRoot(p) ==
    /\ pc[p] = "write_root"
    /\ Write(p, unversioned_root_filename, roles[p]["root"])
    /\ Goto(p, "load_root")
    /\ UNCHANGED <<exec, nexec, online_key, offline_key, roles, targets,
                   package_custom_in_toto, disk_filename, targets_dict, loaded>>

\* line 93
LoadRoot(p) ==
    /\ pc[p] = "load_root"
    /\ loaded' = [loaded EXCEPT ![p] = FromFile(disk, unversioned_root_filename)]
    /\ Goto(p, "sign_root")
    /\ UNCHANGED <<exec, nexec, online_key, offline_key, roles, targets,
                   package_custom_in_toto, disk_filename, targets_dict,
                   disk, written>>

\* lines 94-95
SignRoot(p) ==
    /\ pc[p] = "sign_root"
    /\ LET root == Sign(loaded[p], offline_key[p])
       IN /\ loaded' = [loaded EXCEPT ![p] = root]
          /\ Write(p, unversioned_root_filename, root)
    /\ Goto(p, "glob_links")
    /\ UNCHANGED <<exec, nexec, online_key, offline_key, roles, targets,
                   package_custom_in_toto, disk_filename, targets_dict>>

\* lines 110-117, the loop over the files the glob found
RECURSIVE LinkLoop(_, _)
LinkLoop(found, st) ==
    IF found = <<>> THEN st
    ELSE LET file == Head(found)
             metadata_filename == MetadataFilename(file)
             fileinfo == TargetFileFromFile(metadata_filename, file)
         IN LinkLoop(Tail(found),
                [targets |-> [m \in DOMAIN st.targets \cup {metadata_filename} |->
                                 IF m = metadata_filename THEN fileinfo
                                 ELSE st.targets[m]],
                 package_custom_in_toto |->
                     Append(st.package_custom_in_toto, metadata_filename),
                 disk_filename |-> file])

\* lines 105-117
GlobLinks(p) ==
    /\ pc[p] = "glob_links"
    /\ \E found \in GlobResults :
         LET st == LinkLoop(found,
                       [targets |-> <<>>,
                        package_custom_in_toto |-> <<RootLayoutPath>>,
                        disk_filename |-> Unbound])
         IN /\ targets' = [targets EXCEPT ![p] = st.targets]
            /\ package_custom_in_toto' =
                   [package_custom_in_toto EXCEPT ![p] = st.package_custom_in_toto]
            /\ disk_filename' = [disk_filename EXCEPT ![p] = st.disk_filename]
    /\ Goto(p, "read_package")
    /\ UNCHANGED <<exec, nexec, online_key, offline_key, roles, targets_dict,
                   loaded, disk, written>>

\* The file line 122 measures for the package: the loop variable.
PackageLocalPath(p) == disk_filename[p]

\* lines 120-129.  With no link file the loop variable was never bound and
\* line 122 raises NameError, which ends the execution.
\* targets[metadata_filename] and package_fileinfo are one object, so the
\* custom field set at line 125 shows in targets; line 124 names the append
\* method without calling it.
ReadPackage(p) ==
    /\ pc[p] = "read_package"
    /\ IF PackageLocalPath(p) = Unbound
       THEN /\ Goto(p, "crashed")
            /\ UNCHANGED targets
       ELSE LET metadata_filename == PackagePath
                package_fileinfo ==
                    [TargetFileFromFile(metadata_filename, PackageLocalPath(p))
                        EXCEPT !.custom = Range(package_custom_in_toto[p])]
            IN /\ targets' = [targets EXCEPT ![p] =
                      [m \in DOMAIN @ \cup {metadata_filename} |->
                          IF m = metadata_filename THEN package_fileinfo ELSE @[m]]]
               /\ Goto(p, "write_delegatee")
    /\ UNCHANGED <<exec, nexec, online_key, offline_key, roles,
                   package_custom_in_toto, disk_filename, targets_dict,
                   loaded, disk, written>>

\* lines 131-144
WriteDelegatee(p) ==
    /\ pc[p] = "write_delegatee"
    /\ LET md == Metadata(Targets(1, 1, targets[p]), exec[p])
       IN /\ roles' = [roles EXCEPT ![p] = (delegatee_name :> md) @@ @]
          /\ Write(p, unversioned_delegatee_filename, md)
    /\ Goto(p, "load_delegatee")
    /\ UNCHANGED <<exec, nexec, online_key, offline_key, targets,
                   package_custom_in_toto, disk_filename, targets_dict, loaded>>

\* line 147
LoadDelegatee(p) ==
    /\ pc[p] = "load_delegatee"
    /\ loaded' = [loaded EXCEPT ![p] = FromFile(disk, unversioned_delegatee_filename)]
    /\ Goto(p, "sign_delegatee")
    /\ UNCHANGED <<exec, nexec, online_key, offline_key, roles, targets,
                   package_custom_in_toto, disk_filename, targets_dict,
                   disk, written>>

\* The key line 148 signs the delegated role with.
DelegateeSigningKey(p) == online_key[p]

\* lines 148-149
SignDelegatee(p) ==
    /\ pc[p] = "sign_delegatee"
    /\ LET delegatee == Sign(loaded[p], DelegateeSigningKey(p))
       IN /\ loaded' = [loaded EXCEPT ![p] = delegatee]
          /\ Write(p, unversioned_delegatee_filename, delegatee)
    /\ Goto(p, "write_targets")
    /\ UNCHANGED <<exec, nexec, online_key, offline_key, roles, targets,
                   package_custom_in_toto, disk_filename, targets_dict>>

\* A digest written into the script as a literal.
HexDigest(hex) == Sha256(<<hex>>)

\* line 187: the path patterns of the delegated role
DelegatedPaths ==
    << <<<<"in-toto-metadata">>, <<"*">>, <<"*", ".link">>>>,
       <<<<"packages">>, <<"*">>>> >>

\* lines 183-191
DelegatedRoles(offline_key_id) ==
    << [keyids |-> <<offline_key_id>>,
        name |-> delegatee_name,
        paths |-> DelegatedPaths,
        terminating |-> TRUE,
        threshold |-> 1] >>

\* lines 195-213
TopLevelTargets ==
    (RootLayoutPath :>
        [path |-> RootLayoutPath, length |-> 5340,
         hashes |-> HexDigest("fd638c9e085b8aea"), custom |-> {AlicePubPath}])
    @@
    (AlicePubPath :>
        [path |-> AlicePubPath, length |-> 625,
         hashes |-> HexDigest("06b6b81c16fce5a9"), custom |-> {}])

\* lines 154-218: the skeleton of targets.json is written; the delegations
\* and the targets go to targets_dict only.
WriteTargets(p) ==
    /\ pc[p] = "write_targets"
    /\ LET offline_key_id == Head(roles[p]["root"].signed.roles["root"].keyids)
           md == Metadata(Targets(1, 1, <<>>), exec[p])
           signed ==
               [type |-> md.signed.type, version |-> md.signed.version,
                expires |-> md.signed.expires,
                delegations |-> [keys |-> {offline_key_id},
                                 roles |-> DelegatedRoles(offline_key_id)],
                targets |-> TopLevelTargets]
       IN /\ roles' = [roles EXCEPT ![p] = ("targets" :> md) @@ @]
          /\ targets_dict' = [targets_dict EXCEPT ![p] = [md EXCEPT !.signed = signed]]
          /\ Write(p, unversioned_target_filename, md)
    /\ Goto(p, "load_targets")
    /\ UNCHANGED <<exec, nexec, online_key, offline_key, targets,
                   package_custom_in_toto, disk_filename, loaded>>

\* line 221 (the script reuses the name targets for the loaded object)
LoadTargets(p) ==
    /\ pc[p] = "load_targets"
    /\ loaded' = [loaded EXCEPT ![p] = FromFile(disk, unversioned_target_filename)]
    /\ Goto(p, "final_targets")
    /\ UNCHANGED <<exec, nexec, online_key, offline_key, roles, targets,
                   package_custom_in_toto, disk_filename, targets_dict,
                   disk, written>>

\* lines 226-234: the payload of targets_dict under the signatures of the
\* object that was loaded and signed.
MergeTargets(dict, sig_dict) == [dict EXCEPT !.signatures = sig_dict.signatures]

\* lines 223-241
FinalWriteTargets(p) ==
    /\ pc[p] = "final_targets"
    /\ LET signed_md == Sign(loaded[p], offline_key[p])
           merged == MergeTargets(targets_dict[p], signed_md)
       IN /\ loaded' = [loaded EXCEPT ![p] = signed_md]
          /\ targets_dict' = [targets_dict EXCEPT ![p] = merged]
          /\ Write(p, unversioned_target_filename, merged)
    /\ Goto(p, "write_snapshot")
    /\ UNCHANGED <<exec, nexec, online_key, offline_key, roles, targets,
                   package_custom_in_toto, disk_filename>>

\* lines 244-249
WriteSnapshot(p) ==
    /\ pc[p] = "write_snapshot"
    /\ LET md == Metadata(Snapshot(1), exec[p])
       IN /\ roles' = [roles EXCEPT ![p] = ("snapshot" :> md) @@ @]
          /\ Write(p, unversioned_snapshot_filename, md)
    /\ Goto(p, "load_snapshot")
    /\ UNCHANGED <<exec, nexec, online_key, offline_key, targets,
                   package_custom_in_toto, disk_filename, targets_dict, loaded>>

\* line 251
LoadSnapshot(p) ==
    /\ pc[p] = "load_snapshot"
    /\ loaded' = [loaded EXCEPT ![p] = FromFile(disk, unversioned_snapshot_filename)]
    /\ Goto(p, "final_snapshot")
    /\ UNCHANGED <<exec, nexec, online_key, offline_key, roles, targets,
                   package_custom_in_toto, disk_filename, targets_dict,
                   disk, written>>

\* Mutation of SnapshotMeta: the entry of the delegated role is left out.
SnapshotMetaTargetsOnly == (unversioned_target_filename :> [version |-> 1])

\* lines 258-265
SnapshotMeta ==
    (unversioned_delegatee_filename :> [version |-> 1])
    @@ (unversioned_target_filename :> [version |-> 1])

\* Mutation of SnapshotFinalFilename: the final write of the snapshot goes
\* to targets.json, as the comment of line 270 has it.
SnapshotFinalFilenameTargets == Unversioned("targets")

\* line 271: the file the final write of the snapshot goes to
SnapshotFinalFilename == Unversioned("snapshot")

\* lines 252-272
FinalWriteSnapshot(p) ==
    /\ pc[p] = "final_snapshot"
    /\ LET snapshots == Sign(loaded[p], online_key[p])
           snapshot_dict == [snapshots EXCEPT !.signed.meta = SnapshotMeta]
       IN /\ loaded' = [loaded EXCEPT ![p] = snapshots]
          /\ Write(p, SnapshotFinalFilename, snapshot_dict)
    /\ Goto(p, "write_timestamp")
    /\ UNCHANGED <<exec, nexec, online_key, offline_key, roles, targets,
                   package_custom_in_toto, disk_filename, targets_dict>>

\* lines 275-280
WriteTimestamp(p) ==
    /\ pc[p] = "write_timestamp"
    /\ LET md == Metadata(Timestamp(1), exec[p])
       IN /\ roles' = [roles EXCEPT ![p] = ("timestamp" :> md) @@ @]
          /\ Write(p, unversioned_timestamp_filename, md)
    /\ Goto(p, "load_timestamp")
    /\ UNCHANGED <<exec, nexec, online_key, offline_key, targets,
                   package_custom_in_toto, disk_filename, targets_dict, loaded>>

\* line 282
LoadTimestamp(p) ==
    /\ pc[p] = "load_timestamp"
    /\ loaded' = [loaded EXCEPT ![p] = FromFile(disk, unversioned_timestamp_filename)]
    /\ Goto(p, "sign_timestamp")
    /\ UNCHANGED <<exec, nexec, online_key, offline_key, roles, targets,
                   package_custom_in_toto, disk_filename, targets_dict,
                   disk, written>>

\* lines 283-284, the last statements of the script
SignTimestamp(p) ==
    /\ pc[p] = "sign_timestamp"
    /\ LET timestamps == Sign(loaded[p], online_key[p])
       IN /\ loaded' = [loaded EXCEPT ![p] = timestamps]
          /\ Write(p, unversioned_timestamp_filename, timestamps)
    /\ Goto(p, "done")
    /\ UNCHANGED <<exec, nexec, online_key, offline_key, roles, targets,
                   package_custom_in_toto, disk_filename, targets_dict>>

\* The process ends (normally or by the uncaught NameError); its objects
\* are gone, the metadata directory stays.  The script can be run again.
Exit(p) ==
    /\ pc[p] \in {"done", "crashed"}
    /\ Goto(p, "start")
    /\ exec' = [exec EXCEPT ![p] = 0]
    /\ online_key' = [online_key EXCEPT ![p] = 0]
    /\ offline_key' = [offline_key EXCEPT ![p] = 0]
    /\ roles' = [roles EXCEPT ![p] = <<>>]
    /\ targets' = [targets EXCEPT ![p] = <<>>]
    /\ package_custom_in_toto' = [package_custom_in_toto EXCEPT ![p] = <<>>]
    /\ disk_filename' = [disk_filename EXCEPT ![p] = Unbound]
    /\ targets_dict' = [targets_dict EXCEPT ![p] = NoMetadata]
    /\ loaded' = [loaded EXCEPT ![p] = NoMetadata]
    /\ written' = [written EXCEPT ![p] = <<>>]
    /\ UNCHANGED <<nexec, disk>>

Step(p) ==
    \/ CreateRoot(p)
    \/ WriteRoot(p)
    \/ LoadRoot(p)
    \/ SignRoot(p)
    \/ GlobLinks(p)
    \/ ReadPackage(p)
    \/ WriteDelegatee(p)
    \/ LoadDelegatee(p)
    \/ SignDelegatee(p)
    \/ WriteTargets(p)
    \/ LoadTargets(p)
    \/ FinalWriteTargets(p)
    \/ WriteSnapshot(p)
    \/ LoadSnapshot(p)
    \/ FinalWriteSnapshot(p)
    \/ WriteTimestamp(p)
    \/ LoadTimestamp(p)
    \/ SignTimestamp(p)
    \/ Exit(p)

\* Executions one after the other.
Next == \E p \in SeqProcs : Step(p)
Spec == Init /\ [][Next]_vars

\* Two executions started without waiting for each other.
NextConc == \E p \in Procs : Step(p)
SpecConc == Init /\ [][NextConc]_vars

\* ------------------------------------------------------------ trust evaluation
\* fnmatch of one path segment against one pattern segment
RECURSIVE FnMatch(_, _)
FnMatch(name, pat) ==
    IF pat = <<>> THEN name = <<>>
    ELSE IF Head(pat) = "*"
         THEN FnMatch(name, Tail(pat))
              \/ (name # <<>> /\ FnMatch(Tail(name), pat))
         ELSE name # <<>> /\ Head(name) = Head(pat)
              /\ FnMatch(Tail(name), Tail(pat))

\* A path matches a pattern segment by segment.
IsTargetInPathPattern(path, pattern) ==
    /\ Len(path) = Len(pattern)
    /\ \A i \in DOMAIN path : FnMatch(path[i], pattern[i])

IsDelegatedPath(role, path) ==
    \E i \in DOMAIN role.paths : IsTargetInPathPattern(path, role.paths[i])

\* The delegated roles a targets payload declares, in order.
DelegationsOf(signed) ==
    IF "delegations" \in DOMAIN signed THEN signed.delegations.roles ELSE <<>>

UnresolvedTarget == "UnresolvedTarget"

\* The walk for a target path from a role of the persisted metadata:
\* a direct entry first, then the delegated roles in declared order.
RECURSIVE Walk(_, _, _)
RECURSIVE Scan(_, _, _)
Walk(rolename, path, depth) ==
    IF Unversioned(rolename) \notin DOMAIN disk THEN UnresolvedTarget
    ELSE LET signed == disk[Unversioned(rolename)].signed
         IN IF path \in DOMAIN signed.targets THEN rolename
            ELSE IF depth = 0 THEN UnresolvedTarget
            ELSE Scan(DelegationsOf(signed), path, depth)

Scan(delegated, path, depth) ==
    IF delegated = <<>> THEN UnresolvedTarget
    ELSE LET role == Head(delegated)
         IN IF IsDelegatedPath(role, path)
            THEN LET found == Walk(role.name, path, depth - 1)
                 IN IF found # UnresolvedTarget \/ role.terminating
                    THEN found
                    ELSE Scan(Tail(delegated), path, depth)
            ELSE Scan(Tail(delegated), path, depth)

\* The targets-family roles reachable from a role through delegations.
RECURSIVE Reachable(_, _)
Reachable(rolename, depth) ==
    {rolename} \cup
    (IF depth = 0 \/ Unversioned(rolename) \notin DOMAIN disk THEN {}
     ELSE UNION {Reachable(d.name, depth - 1) :
                   d \in Range(DelegationsOf(disk[Unversioned(rolename)].signed))})

\* The key ids and the threshold the persisted metadata declares for a
\* role: Root for the top-level roles, the delegation in targets.json for
\* a delegated role.
DelegationsFor(r) ==
    {d \in Range(DelegationsOf(disk[unversioned_target_filename].signed)) : d.name = r}

AuthorizedKeyids(r) ==
    IF r \in TopLevelRoles
    THEN Range(disk[unversioned_root_filename].signed.roles[r].keyids)
    ELSE UNION {Range(d.keyids) : d \in DelegationsFor(r)}

ThresholdOf(r) ==
    IF r \in TopLevelRoles
    THEN disk[unversioned_root_filename].signed.roles[r].threshold
    ELSE (CHOOSE d \in DelegationsFor(r) : TRUE).threshold

Completed(p) == pc[p] = "done"
SomeCompleted == \E p \in Procs : Completed(p)

\* ------------------------------------------------------------ claims

\* C1: when an execution has completed, every role file it leaves has
\* signatures from at least threshold distinct key ids of the key set
\* authorized for the role (Root for the four top-level roles, the
\* delegation in targets.json for the delegated role).
C1_ThresholdMet ==
    SomeCompleted =>
        \A r \in RoleNames :
            Cardinality(DOMAIN disk[RoleFile(r)].signatures \cap AuthorizedKeyids(r))
                >= ThresholdOf(r)

\* C2: when an execution has completed, every signature of every role
\* file was made over the payload that the same file holds.
C2_SignedPayloadPersisted ==
    SomeCompleted =>
        \A r \in RoleNames :
            \A k \in DOMAIN disk[RoleFile(r)].signatures :
                disk[RoleFile(r)].signatures[k].over = disk[RoleFile(r)].signed

\* C3: the first write an execution makes to snapshot.json or to
\* timestamp.json, when an earlier execution left that file, carries a
\* version strictly greater than the persisted one.
C3_VersionsIncrease ==
    [][\A p \in Procs : \A r \in {"snapshot", "timestamp"} :
          (/\ Len(written'[p]) = Len(written[p]) + 1
           /\ written'[p][Len(written'[p])] = RoleFile(r)
           /\ RoleFile(r) \notin Range(written[p])
           /\ RoleFile(r) \in DOMAIN disk)
          => disk'[RoleFile(r)].signed.version > disk[RoleFile(r)].signed.version]_vars

\* C4: when an execution has completed, the meta of the persisted snapshot
\* has exactly one entry per targets-family file reachable from targets
\* through delegations, each with the version of that role's persisted file.
C4_SnapshotMetaComplete ==
    SomeCompleted =>
        LET snapshot == disk[unversioned_snapshot_filename].signed
            reachable == Reachable("targets", MaxDepth)
        IN /\ DOMAIN snapshot.meta = {Unversioned(r) : r \in reachable}
           /\ \A r \in reachable :
                snapshot.meta[Unversioned(r)].version = disk[RoleFile(r)].signed.version

C4_Witness ==
    /\ SomeCompleted
    /\ Reachable("targets", MaxDepth) = {"targets", delegatee_name}
    /\ unversioned_delegatee_filename \in DOMAIN disk[unversioned_snapshot_filename].signed.meta

\* C5: when an execution has completed, the persisted timestamp has a
\* single meta entry, for snapshot.json, with the version of the persisted
\* snapshot.
C5_TimestampReferencesSnapshot ==
    SomeCompleted =>
        LET timestamp == disk[unversioned_timestamp_filename].signed
        IN /\ DOMAIN timestamp.meta = {unversioned_snapshot_filename}
           /\ timestamp.meta[unversioned_snapshot_filename].version
                = disk[unversioned_snapshot_filename].signed.version

C5_Witness ==
    /\ SomeCompleted
    /\ nexec = MaxRuns
    /\ DOMAIN disk[unversioned_timestamp_filename].signatures # {}

\* C6: with consistent_snapshot false in the persisted root, every file of
\* the metadata directory has an unversioned name, {rolename}.json.
C6_OnlyUnversionedNames ==
    \A f \in DOMAIN disk :
        (/\ unversioned_root_filename \in DOMAIN disk
         /\ ~disk[unversioned_root_filename].signed.consistent_snapshot)
        => \E r \in RoleNames : f = Unversioned(r)

\* The positions between the first and the final write of a role's file.
InFlight(p, r) ==
    CASE r = "root" -> pc[p] \in {"load_root", "sign_root"}
      [] r = delegatee_name -> pc[p] \in {"load_delegatee", "sign_delegatee"}
      [] r = "targets" -> pc[p] \in {"load_targets", "final_targets"}
      [] r = "snapshot" -> pc[p] \in {"load_snapshot", "final_snapshot"}
      [] r = "timestamp" -> pc[p] \in {"load_timestamp", "sign_timestamp"}

\* C7: of two overlapping executions at most one is between its first and
\* its final write of a role's file, and no persisted file holds a payload
\* built by one execution under a signature made by the other.
C7_SingleWriterPerRole ==
    /\ \A r \in RoleNames : \A p, q \in Procs :
          (InFlight(p, r) /\ InFlight(q, r)) => p = q
    /\ \A f \in DOMAIN disk : \A k \in DOMAIN disk[f].signatures :
          KeyOwner(k) = disk[f].origin

TargetsFamilyFiles == {unversioned_delegatee_filename, unversioned_target_filename}

C9_PublishedTargetsResolve ==
    SomeCompleted =>
        \A r \in {"targets", delegatee_name} :
            \A path \in DOMAIN disk[RoleFile(r)].signed.targets :
                Walk("targets", path, MaxDepth) = r

C9_Witness ==
    /\ SomeCompleted
    /\ PackagePath \in DOMAIN disk[unversioned_delegatee_filename].signed.targets
    /\ \E f \in LinkDiskFiles :
          MetadataFilename(f) \in DOMAIN disk[unversioned_delegatee_filename].signed.targets
    /\ RootLayoutPath \in DOMAIN disk[unversioned_target_filename].signed.targets

\* C10: the descriptor an execution records for packages/demo-project.tar.gz
\* carries the length and the hashes of the package file itself.
C10_PackageDescriptor ==
    \A p \in Procs :
        PackagePath \in DOMAIN targets[p] =>
            /\ targets[p][PackagePath].length = Len(FileBytes(package_filename))
            /\ targets[p][PackagePath].hashes = Sha256(FileBytes(package_filename))
====
